---- MODULE Spec2Model ----
(***************************************************************************)
(* Model of src/src/webrtc.ts: the WebRtcClient base class (offer/answer    *)
(* negotiation over HTTP, trickled ICE candidates with a cache that is      *)
(* flushed once the session URL is known, and ICE server discovery from     *)
(* the Link response header), and its subclasses WhepClient, WhipClient and *)
(* DuplexClient (start(), access to the local media, and the pairing of the *)
(* remote tracks into streams).                                             *)
(*                                                                          *)
(* JavaScript runs the code of one task or microtask to completion, so an   *)
(* action of this model is the code between two suspension points (an       *)
(* `await` on a promise of the network or of the peer connection).          *)
(*                                                                          *)
(* Conventions:                                                             *)
(*  - an optional value (T | undefined | null) is a sequence of length 0    *)
(*    or 1: <<>> is undefined/null, <<v>> is v;                             *)
(*  - a JavaScript string that the code takes apart (the Link header) is a  *)
(*    sequence of tokens: each token is one of the characters the code      *)
(*    looks at (< > ; , = " and the blank) or a maximal run of other        *)
(*    characters.                                                           *)
(***************************************************************************)
EXTENDS Integers, Sequences, FiniteSets, TLC

\* ----------------------------------------------------------------- bounds
\* icecandidate events the peer connection fires
MaxEvents == 2
\* calls of sendOffer on the one client
MaxOffers == 2
\* comma-separated entries of a Link header
MaxEntries == 2
\* track events the peer connection fires
MaxTracks == 4
\* the largest config.simulcastVideoCount
MaxSimulcast == 2
\* comma-separated entries of the Link header of the parse on its own
MaxParseEntries == 3

\* ------------------------------------------------------- string helpers
None == <<>>
Some(v) == <<v>>
IsSome(o) == Len(o) > 0
Get(o) == o[1]

SubSeqFrom(s, a) == SubSeq(s, a, Len(s))

\* index of the first occurrence of token c in s at or after position a, 0 if none
IndexFrom(s, c, a) ==
  LET hits == {k \in a..Len(s) : s[k] = c}
  IN IF hits = {} THEN 0 ELSE CHOOSE k \in hits : \A m \in hits : k <= m

\* index of the last occurrence of token c in s, 0 if none
LastIndexOf(s, c) ==
  LET hits == {k \in 1..Len(s) : s[k] = c}
  IN IF hits = {} THEN 0 ELSE CHOOSE k \in hits : \A m \in hits : k >= m

\* String.prototype.split(sep) for a one-character separator
RECURSIVE Split(_, _)
Split(s, sep) ==
  LET k == IndexFrom(s, sep, 1)
  IN IF k = 0 THEN <<s>>
     ELSE <<SubSeq(s, 1, k - 1)>> \o Split(SubSeqFrom(s, k + 1), sep)

\* String.prototype.trim()
RECURSIVE TrimLeft(_)
TrimLeft(s) == IF s # <<>> /\ Head(s) = " " THEN TrimLeft(Tail(s)) ELSE s
RECURSIVE TrimRight(_)
TrimRight(s) ==
  IF s # <<>> /\ s[Len(s)] = " " THEN TrimRight(SubSeq(s, 1, Len(s) - 1)) ELSE s
\* mutant: the segments are not trimmed
TrimNot(s) == s

Trim(s) == TrimLeft(TrimRight(s))

\* ------------------------------------------- receiveIceServers: parsing
\* the literal `rel="ice-server"` of line 146
RelIceServer == <<"rel", "=", "\"", "ice-server", "\"">>

\* mutant: the URL between the brackets may be empty
UrlMatchEmpty(seg) ==
  LET lt == IndexFrom(seg, "<", 1)
      gt == LastIndexOf(seg, ">")
  IN IF lt # 0 /\ gt >= lt + 1 THEN Some(SubSeq(seg, lt + 1, gt - 1)) ELSE None

\* split[0].match(/<(.+)>/): the leftmost "<" that has at least one token and
\* then a ">" after it; the group is greedy, so it runs to the last ">".
\* The result is the optional group 1.
UrlMatch(seg) ==
  LET lt == IndexFrom(seg, "<", 1)
      gt == LastIndexOf(seg, ">")
  IN IF lt # 0 /\ gt >= lt + 2 THEN Some(SubSeq(seg, lt + 1, gt - 1)) ELSE None

\* whether /([^=]+)="([^"]+)"/ matches f starting at position a
PairMatchesAt(f, a) ==
  LET eq == IndexFrom(f, "=", a)
      q  == IF eq = 0 THEN 0 ELSE IndexFrom(f, "\"", eq + 2)
  IN /\ f[a] # "="
     /\ eq # 0
     /\ eq + 1 <= Len(f) /\ f[eq + 1] = "\""
     /\ q > eq + 2

\* f.match(/([^=]+)="([^"]+)"/): the leftmost match; the optional pair of
\* group 1 (the key) and group 2 (the value)
PairMatch(f) ==
  LET starts == {a \in 1..Len(f) : PairMatchesAt(f, a)}
  IN IF starts = {} THEN None
     ELSE LET a  == CHOOSE x \in starts : \A y \in starts : x <= y
              eq == IndexFrom(f, "=", a)
              q  == IndexFrom(f, "\"", eq + 2)
          IN Some([key |-> SubSeq(f, a, eq - 1), value |-> SubSeq(f, eq + 2, q - 1)])

\* the switch of lines 153-163 applied to one segment
SetField(server, f) ==
  LET pair == PairMatch(f)
  IN IF ~IsSome(pair) THEN server
     ELSE CASE Get(pair).key = <<"username">> ->
                 [server EXCEPT !.username = Some(Get(pair).value)]
            [] Get(pair).key = <<"credential">> ->
                 [server EXCEPT !.credential = Some(Get(pair).value)]
            [] Get(pair).key = <<"credential-type">> ->
                 [server EXCEPT !.credentialType = Some(Get(pair).value)]
            [] OTHER -> server

\* the loop of lines 150-165 over the segments split[k..]
RECURSIVE SetFields(_, _, _)
SetFields(server, split, k) ==
  IF k > Len(split) THEN server
  ELSE SetFields(SetField(server, split[k]), split, k + 1)

\* lines 145-168 for one comma-separated link: the servers it contributes
ParseLink(link) ==
  LET parts == Split(link, ";")
      split == [k \in 1..Len(parts) |-> Trim(parts[k])]
  IN IF \E k \in 1..Len(split) : split[k] = RelIceServer
     THEN LET urlMatch == UrlMatch(split[1])
          IN IF IsSome(urlMatch)
             THEN <<SetFields([urls |-> <<Get(urlMatch)>>, username |-> None,
                               credential |-> None, credentialType |-> None],
                              split, 1)>>
             ELSE <<>>
     ELSE <<>>

\* lines 142-169: the servers of a Link header value
RECURSIVE ParseLinks(_, _)
ParseLinks(links, k) ==
  IF k > Len(links) THEN <<>> ELSE ParseLink(links[k]) \o ParseLinks(links, k + 1)

ParseLinkHeader(linkHeader) == ParseLinks(Split(linkHeader, ","), 1)

\* lines 137-182: the iceServers of the peer connection after
\* receiveIceServers(headers), given the ones it has (existing)
\* mutant: the servers of the header are installed over explicit ones
ApplyPolicyAlways(servers, existing) == IF Len(servers) > 0 THEN servers ELSE existing

ApplyPolicy(servers, existing) ==
  IF Len(servers) > 0 /\ Len(existing) = 0 THEN servers ELSE existing

receiveIceServers(link, existing) ==
  IF ~IsSome(link) \/ Get(link) = <<>> THEN existing
  ELSE ApplyPolicy(ParseLinkHeader(Get(link)), existing)

\* ------------------------------------------------ the server's responses
\* A Link header is written from a list of entries; an entry is
\*   kind "ice":       <url>; rel="ice-server" and the attributes it has
\*   kind "other":     <url>; rel="next"
\*   kind "nobracket": url; rel="ice-server"      (no bracketed URL)
\* The url and the values of an entry are strings (sequences of tokens)
\* without the characters , ; and ".
Param(key, value) == <<";", " ", key, "=", "\"">> \o value \o <<"\"">>

OptParam(key, o) == IF IsSome(o) THEN Param(key, Get(o)) ELSE <<>>

RenderEntry(e) ==
  CASE e.kind = "ice" ->
         <<"<">> \o e.url \o <<">">> \o Param("rel", <<"ice-server">>)
           \o OptParam("username", e.username)
           \o OptParam("credential", e.credential)
           \o OptParam("credential-type", e.credentialType)
    [] e.kind = "other" -> <<"<">> \o e.url \o <<">">> \o Param("rel", <<"next">>)
    [] OTHER -> e.url \o Param("rel", <<"ice-server">>)

\* entries are joined by ", " as Headers.get joins the values of a header
RECURSIVE RenderLink(_)
RenderLink(es) ==
  IF Len(es) = 0 THEN <<>>
  ELSE IF Len(es) = 1 THEN RenderEntry(es[1])
  ELSE RenderEntry(es[1]) \o <<",", " ">> \o RenderLink(Tail(es))

\* the URLs of the entries: turn:a?transport=udp and stun:b
Urls == {<<"turn:a?transport", "=", "udp">>, <<"stun:b">>}

NoAttrs == [username |-> None, credential |-> None, credentialType |-> None]

\* the attributes of the ice-server entries; the credential cGFzcw== ends in "="
Attrs ==
  {NoAttrs,
   [username |-> Some(<<"u">>), credential |-> Some(<<"p">>), credentialType |-> None],
   [username |-> Some(<<"u">>), credential |-> Some(<<"cGFzcw", "=", "=">>),
    credentialType |-> Some(<<"password">>)],
   [username |-> None, credential |-> Some(<<"p">>), credentialType |-> None]}

IceEntries ==
  {[kind |-> "ice", url |-> u, username |-> a.username, credential |-> a.credential,
    credentialType |-> a.credentialType] : u \in Urls, a \in Attrs}

OtherEntries ==
  {[kind |-> k, url |-> u, username |-> None, credential |-> None,
    credentialType |-> None] : k \in {"other", "nobracket"}, u \in Urls}

Entries == IceEntries \cup OtherEntries

EntryLists == UNION {[1..n -> Entries] : n \in 1..MaxEntries}

\* the Link headers a response can carry: none, or a list of entries
AllLinks == {None} \cup {Some(es) : es \in EntryLists}

\* the Link headers of the specification with trickled candidates: none, or
\* one ice-server entry with a username and a credential
FewLinks ==
  {None,
   Some(<<[kind |-> "ice", url |-> <<"turn:a?transport", "=", "udp">>,
           username |-> Some(<<"u">>), credential |-> Some(<<"p">>),
           credentialType |-> None]>>)}

\* URLs are an origin and a path; a Location header value with origin ""
\* is relative
endpointUrl == [origin |-> "https://host", path |-> "/whep"]

Locations ==
  {None, Some([origin |-> "", path |-> "/session/1"]),
   Some([origin |-> "https://edge", path |-> "/session/2"])}

\* new URL(location, base)
NewURL(loc, base) ==
  IF loc.origin # "" THEN loc ELSE [origin |-> base.origin, path |-> loc.path]

\* the responses to the POST: response.ok and the two headers the code reads.
\* A response that is not ok carries no header, or both of them.
Responses(links) ==
  [ok : {TRUE}, location : Locations, link : links]
    \cup {[ok |-> FALSE, location |-> None, link |-> None]}
    \cup [ok : {FALSE}, location : {Some([origin |-> "", path |-> "/session/1"])},
          link : links \ {None}]

\* response.headers.get('link') (line 138): the header's value as a string
HeadersGetLink(r) == IF IsSome(r.link) THEN Some(RenderLink(Get(r.link))) ELSE None

\* what the caller passes as config.iceServers
callerServers ==
  <<[urls |-> <<<<"stun:caller">>>>, username |-> None, credential |-> None,
     credentialType |-> None]>>

\* ------------------------------------------------------------- the state
VARIABLES
  config,            \* config.iceServers as the caller passed it
  iceServers,        \* this.client.getConfiguration().iceServers
  localDescription,  \* whether setLocalDescription has succeeded (gathering runs)
  remoteDescription, \* the sendOffer call whose answer was applied last, if any
  sessionUrl,        \* this.sessionUrl
  heap,              \* the array objects: heap[a] is the content of array a
  cachedCandidates,  \* this.cachedCandidates: the array it refers to
  pc,                \* pc[i]: where the i-th call of sendOffer is
  error,             \* error[i]: what the i-th call of sendOffer threw
  headers,           \* the Link header receiveIceServers was last called with
  posts,             \* posts[i]: the POST requests call i has issued
  flush,             \* flush[i]: the sendCachedCandidates() call of call i
  patches,           \* the PATCH requests issued, in the order of issue
  dispatched,        \* the events dispatched on the client
  nEvents,           \* the icecandidate events fired so far
  gatheringDone,     \* how often line 35 has logged the end of gathering
  thrown,            \* whether sendCandidate has thrown at line 96
  role,              \* the class of the client: "base", "whep", "whip", "duplex"
  env,               \* the rest of the config and the page the client runs in
  simulcastVideoCount, \* this.simulcastVideoCount
  container,         \* whether this.container is an element
  media,             \* this.media
  access,            \* whether a getUserMedia call of requestAccess is pending
  start,             \* the call of start(): where it is and what it returned
  transceivers,      \* this.client.getTransceivers()
  outputVideoTracks, \* this.outputVideoTracks
  outputAudioTrack,  \* this.outputAudioTrack
  videoElements,     \* this.videoElements
  streams,           \* the MediaStream objects constructed, in order
  nTracks,           \* the track events fired so far
  linkHeader,        \* the entries of the Link header receiveIceServers is to parse
  servers            \* the local `servers` of receiveIceServers when its loop ends

\* the variables of the subclasses: of start(), of the remote tracks
roleVars ==
  <<role, env, simulcastVideoCount, container, media, access, start, transceivers>>
trackVars == <<outputVideoTracks, outputAudioTrack, videoElements, streams, nTracks>>
\* the variables of the parse of one Link header
parseVars == <<linkHeader, servers>>
subVars == <<roleVars, trackVars, parseVars>>

vars ==
  <<config, iceServers, localDescription, remoteDescription, sessionUrl, heap,
    cachedCandidates, pc, error, headers, posts, flush, patches, dispatched,
    nEvents, gatheringDone, thrown, subVars>>

\* the variables of the peer connection, of the negotiation, of the candidates
connVars == <<config, iceServers, localDescription, remoteDescription>>
offerVars == <<sessionUrl, pc, error, headers, posts, dispatched>>
candVars == <<heap, cachedCandidates, flush, patches, nEvents, gatheringDone, thrown>>

Offers == 1..MaxOffers

NoFlush == [st |-> "none", arr |-> 0, idx |-> 0]

\* what is not configured for the base class: no simulcastVideoCount, no
\* container in the config or in the document; navigator.mediaDevices exists
NoEnv ==
  [simulcastVideoCount |-> None, container |-> FALSE, documentContainer |-> FALSE,
   mediaDevices |-> TRUE]

\* start() has not been called
NotStarted == [st |-> "idle", value |-> "", error |-> ""]

\* the state after `new WebRtcClient(config)` (lines 9-31)
InitClient ==
  /\ config \in {<<>>, callerServers}
  /\ iceServers = config
  /\ localDescription = FALSE
  /\ remoteDescription = None
  /\ sessionUrl = None
  /\ heap = <<(<<>>)>>
  /\ cachedCandidates = 1
  /\ pc = [i \in Offers |-> "idle"]
  /\ error = [i \in Offers |-> ""]
  /\ headers = None
  /\ posts = [i \in Offers |-> 0]
  /\ flush = [i \in Offers |-> NoFlush]
  /\ patches = <<>>
  /\ dispatched = <<>>
  /\ nEvents = 0
  /\ gatheringDone = 0
  /\ thrown = FALSE

\* the base class has none of the fields of the subclasses, start() has not
\* been called and receiveIceServers has not run
InitSub ==
  /\ role = "base"
  /\ env = NoEnv
  /\ simulcastVideoCount = 1
  /\ container = FALSE
  /\ media = None
  /\ access = "idle"
  /\ start = NotStarted
  /\ transceivers = <<>>
  /\ outputVideoTracks = <<>>
  /\ outputAudioTrack = None
  /\ videoElements = <<>>
  /\ streams = <<>>
  /\ nTracks = 0
  /\ linkHeader = <<>>
  /\ servers = None

Init == InitClient /\ InitSub

\* ------------------------------------------------------------ candidates
\* mutant: only a null candidate ends the gathering
IsGatheringDoneNullOnly(candidate) == ~IsSome(candidate)

\* line 34: !event.candidate || !event.candidate.candidate
IsGatheringDone(candidate) == ~IsSome(candidate) \/ Get(candidate).candidate = ""

\* mutants: the check of line 39 is left out, or is always taken
ShouldCacheNever(url) == FALSE
ShouldCacheAlways(url) == TRUE

\* line 39: !this.sessionUrl
ShouldCache(url) == ~IsSome(url)

\* sendCandidate (lines 88-120) up to its await: throws at line 96 when there
\* is no session URL, and issues the PATCH otherwise
sendCandidate(candidate, isCached) ==
  IF ~IsSome(sessionUrl)
  THEN thrown' = TRUE /\ UNCHANGED patches
  ELSE /\ patches' = Append(patches, [candidate |-> candidate, cached |-> isCached,
                                      url |-> Get(sessionUrl)])
       /\ UNCHANGED thrown

\* handleIceCandidateFromClient (lines 33-46), which the peer connection calls
\* with the event's candidate once gathering runs
handleIceCandidateFromClient(candidate) ==
  /\ localDescription
  /\ nEvents < MaxEvents
  /\ nEvents' = nEvents + 1
  /\ IF IsGatheringDone(candidate)
     THEN /\ gatheringDone' = gatheringDone + 1
          /\ UNCHANGED <<heap, patches, thrown>>
     ELSE IF ShouldCache(sessionUrl)
     THEN /\ heap' = [heap EXCEPT ![cachedCandidates] = Append(@, Get(candidate))]
          /\ UNCHANGED <<gatheringDone, patches, thrown>>
     ELSE /\ sendCandidate(Get(candidate), FALSE)
          /\ UNCHANGED <<gatheringDone, heap>>
  /\ UNCHANGED <<connVars, offerVars, cachedCandidates, flush>>
  /\ UNCHANGED subVars

\* the candidates the n-th icecandidate event can carry: null, one with an
\* empty candidate line, one with a candidate line
EventCandidates(n) ==
  {None, Some([id |-> n, candidate |-> ""]), Some([id |-> n, candidate |-> "candidate"])}

IceCandidate == \E c \in EventCandidates(nEvents + 1) : handleIceCandidateFromClient(c)

\* -------------------------------------------------- sendCachedCandidates
\* sendCachedCandidates (lines 122-127) from the k-th element of the array arr
\* it iterates: the next PATCH, or the end of the loop and line 126
flushFrom(i, arr, k) ==
  IF k <= Len(heap[arr])
  THEN /\ sendCandidate(heap[arr][k], TRUE)
       /\ flush' = [flush EXCEPT ![i] =
                      [st |-> IF IsSome(sessionUrl) THEN "await" ELSE "rejected",
                       arr |-> arr, idx |-> k]]
       /\ UNCHANGED <<heap, cachedCandidates>>
  ELSE /\ heap' = Append(heap, <<>>)
       /\ cachedCandidates' = Len(heap) + 1
       /\ flush' = [flush EXCEPT ![i] = [st |-> "done", arr |-> arr, idx |-> k]]
       /\ UNCHANGED <<patches, thrown>>

\* the PATCH of a cached candidate resolves: the loop goes on
FlushResolved(i) ==
  /\ flush[i].st = "await"
  /\ flushFrom(i, flush[i].arr, flush[i].idx + 1)
  /\ UNCHANGED <<connVars, offerVars, nEvents, gatheringDone>>
  /\ UNCHANGED subVars

\* the PATCH of a cached candidate rejects: sendCandidate and with it
\* sendCachedCandidates reject, and nobody awaits that promise (line 85)
FlushRejected(i) ==
  /\ flush[i].st = "await"
  /\ flush' = [flush EXCEPT ![i].st = "rejected"]
  /\ UNCHANGED <<connVars, offerVars, heap, cachedCandidates, patches, nEvents,
                 gatheringDone, thrown>>
  /\ UNCHANGED subVars

\* -------------------------------------------------------------- sendOffer
\* a promise that sendOffer awaits rejects: sendOffer throws what it rejected with
Throw(i, what) ==
  /\ pc' = [pc EXCEPT ![i] = "threw"]
  /\ error' = [error EXCEPT ![i] = what]

\* sendOffer is called (line 48) and calls createOffer (line 50). Negotiations
\* on one client are not concurrent: the caller awaits a call of sendOffer
\* before it makes the next one
SendOffer(i) ==
  /\ pc[i] = "idle"
  /\ i > 1 => pc[i - 1] \in {"done", "returned", "threw"}
  /\ pc' = [pc EXCEPT ![i] = "createOffer"]
  /\ UNCHANGED <<connVars, candVars, sessionUrl, error, headers, posts, dispatched>>
  /\ UNCHANGED subVars

\* createOffer resolves: line 51 calls setLocalDescription
CreateOfferResolved(i) ==
  /\ pc[i] = "createOffer"
  /\ pc' = [pc EXCEPT ![i] = "setLocalDescription"]
  /\ UNCHANGED <<connVars, candVars, sessionUrl, error, headers, posts, dispatched>>
  /\ UNCHANGED subVars

CreateOfferRejected(i) ==
  /\ pc[i] = "createOffer"
  /\ Throw(i, "createOffer")
  /\ UNCHANGED <<connVars, candVars, sessionUrl, headers, posts, dispatched>>
  /\ UNCHANGED subVars

\* setLocalDescription resolves: lines 55-61 issue the POST
SetLocalDescriptionResolved(i) ==
  /\ pc[i] = "setLocalDescription"
  /\ localDescription' = TRUE
  /\ posts' = [posts EXCEPT ![i] = @ + 1]
  /\ pc' = [pc EXCEPT ![i] = "fetch"]
  /\ UNCHANGED <<config, iceServers, remoteDescription, candVars, sessionUrl, error,
                 headers, dispatched>>
  /\ UNCHANGED subVars

SetLocalDescriptionRejected(i) ==
  /\ pc[i] = "setLocalDescription"
  /\ Throw(i, "setLocalDescription")
  /\ UNCHANGED <<connVars, candVars, sessionUrl, headers, posts, dispatched>>
  /\ UNCHANGED subVars

\* mutant: the check of line 63 is left out
ResponseOkAlways(r) == TRUE

\* line 63: response.ok
ResponseOk(r) == r.ok

\* onResponseError and raise (lines 184-189): the events dispatched after them
onResponseError(events, r) == Append(events, [type |-> "responseerror", detail |-> r])

\* mutant: the check of line 69 is left out, and new URL(null, base) is "null"
\* resolved against the base
SessionUrlOfUnchecked(r) ==
  IF ~IsSome(r.location) THEN Some(NewURL([origin |-> "", path |-> "/null"], endpointUrl))
  ELSE Some(NewURL(Get(r.location), endpointUrl))

\* lines 68-72: the session URL of a response, none when line 70 throws
SessionUrlOf(r) ==
  IF ~IsSome(r.location) THEN None ELSE Some(NewURL(Get(r.location), endpointUrl))

\* mutant: a response that is not ok also resets this.sessionUrl
FetchResolvedResets(i, r) ==
  /\ pc[i] = "fetch"
  /\ IF ~ResponseOk(r)
     THEN /\ dispatched' = onResponseError(dispatched, r)
          /\ pc' = [pc EXCEPT ![i] = "returned"]
          /\ sessionUrl' = None
          /\ UNCHANGED <<iceServers, error, headers>>
     ELSE /\ headers' = r.link
          /\ iceServers' = receiveIceServers(HeadersGetLink(r), iceServers)
          /\ IF ~IsSome(SessionUrlOf(r))
             THEN /\ Throw(i, "Session not provided in Location header")
                  /\ UNCHANGED sessionUrl
             ELSE /\ sessionUrl' = SessionUrlOf(r)
                  /\ pc' = [pc EXCEPT ![i] = "text"]
                  /\ UNCHANGED error
          /\ UNCHANGED dispatched
  /\ UNCHANGED <<config, localDescription, remoteDescription, candVars, posts>>
  /\ UNCHANGED subVars

\* the POST resolves with response r: lines 63-74 up to `await response.text()`
FetchResolved(i, r) ==
  /\ pc[i] = "fetch"
  /\ IF ~ResponseOk(r)
     THEN /\ dispatched' = onResponseError(dispatched, r)
          /\ pc' = [pc EXCEPT ![i] = "returned"]
          /\ UNCHANGED <<iceServers, sessionUrl, error, headers>>
     ELSE /\ headers' = r.link
          /\ iceServers' = receiveIceServers(HeadersGetLink(r), iceServers)
          /\ IF ~IsSome(SessionUrlOf(r))
             THEN /\ Throw(i, "Session not provided in Location header")
                  /\ UNCHANGED sessionUrl
             ELSE /\ sessionUrl' = SessionUrlOf(r)
                  /\ pc' = [pc EXCEPT ![i] = "text"]
                  /\ UNCHANGED error
          /\ UNCHANGED dispatched
  /\ UNCHANGED <<config, localDescription, remoteDescription, candVars, posts>>
  /\ UNCHANGED subVars

\* the POST rejects (a network error): sendOffer throws
FetchRejected(i) ==
  /\ pc[i] = "fetch"
  /\ Throw(i, "fetch")
  /\ UNCHANGED <<connVars, candVars, sessionUrl, headers, posts, dispatched>>
  /\ UNCHANGED subVars

\* response.text() resolves: lines 77-80 call setRemoteDescription
TextResolved(i) ==
  /\ pc[i] = "text"
  /\ pc' = [pc EXCEPT ![i] = "setRemoteDescription"]
  /\ UNCHANGED <<connVars, candVars, sessionUrl, error, headers, posts, dispatched>>
  /\ UNCHANGED subVars

TextRejected(i) ==
  /\ pc[i] = "text"
  /\ Throw(i, "text")
  /\ UNCHANGED <<connVars, candVars, sessionUrl, headers, posts, dispatched>>
  /\ UNCHANGED subVars

\* setRemoteDescription resolves: line 85 calls sendCachedCandidates, which
\* runs up to its first await, and sendOffer returns
SetRemoteDescriptionResolved(i) ==
  /\ pc[i] = "setRemoteDescription"
  /\ remoteDescription' = Some(i)
  /\ flushFrom(i, cachedCandidates, 1)
  /\ pc' = [pc EXCEPT ![i] = "done"]
  /\ UNCHANGED <<config, iceServers, localDescription, sessionUrl, error, headers,
                 posts, dispatched, nEvents, gatheringDone>>
  /\ UNCHANGED subVars

SetRemoteDescriptionRejected(i) ==
  /\ pc[i] = "setRemoteDescription"
  /\ Throw(i, "setRemoteDescription")
  /\ UNCHANGED <<connVars, candVars, sessionUrl, headers, posts, dispatched>>
  /\ UNCHANGED subVars

\* -------------------------------------------------------- the subclasses
\* the values of config.simulcastVideoCount: not given, or 0..MaxSimulcast
SimulcastCounts == {None} \cup {Some(n) : n \in 0..MaxSimulcast}

\* config.simulcastVideoCount || 1 (lines 219 and 308)
SimulcastVideoCountOf(c) == IF IsSome(c) /\ Get(c) # 0 THEN Get(c) ELSE 1

\* the config and the page of a client of class r: what the class does not
\* read is fixed
Envs(r) ==
  CASE r = "whep" ->
         [simulcastVideoCount : SimulcastCounts, container : BOOLEAN,
          documentContainer : {FALSE}, mediaDevices : {TRUE}]
    [] r = "whip" ->
         [simulcastVideoCount : {None}, container : {FALSE},
          documentContainer : {FALSE}, mediaDevices : BOOLEAN]
    [] OTHER ->
         [simulcastVideoCount : SimulcastCounts, container : BOOLEAN,
          documentContainer : BOOLEAN, mediaDevices : BOOLEAN]

\* this.container after the constructor: config.container (line 220), or
\* config.container || document.getElementById('container') (line 309)
ContainerOf(r, e) ==
  CASE r = "whep" -> e.container
    [] r = "duplex" -> e.container \/ e.documentContainer
    [] OTHER -> FALSE

\* the state after `new WhepClient(config)`, `new WhipClient(config)` or
\* `new DuplexClient(config)` (lines 211-221, 265-269, 298-310)
InitRole ==
  /\ InitClient
  /\ config = <<>>
  /\ role \in {"whep", "whip", "duplex"}
  /\ env \in Envs(role)
  /\ simulcastVideoCount =
       IF role = "whip" THEN 1 ELSE SimulcastVideoCountOf(env.simulcastVideoCount)
  /\ container = ContainerOf(role, env)
  /\ media = None
  /\ access = "idle"
  /\ start = NotStarted
  /\ transceivers = <<>>
  /\ outputVideoTracks = <<>>
  /\ outputAudioTrack = None
  /\ videoElements = <<>>
  /\ streams = <<>>
  /\ nTracks = 0
  /\ linkHeader = <<>>
  /\ servers = None

\* the tracks of the stream getUserMedia({audio: true, video: true}) resolves
\* with (line 373)
UserMedia == <<[kind |-> "audio", id |-> "mic"], [kind |-> "video", id |-> "camera"]>>

\* client.addTransceiver(kind, {direction: 'recvonly'}): a new transceiver
\* whose sender has no track
addTransceiver(ts, kind) ==
  Append(ts, [kind |-> kind, direction |-> "recvonly", track |-> None])

\* the loop of lines 226-228 and 323-325: n video transceivers
RECURSIVE addVideoTransceivers(_, _)
addVideoTransceivers(ts, n) ==
  IF n = 0 THEN ts ELSE addVideoTransceivers(addTransceiver(ts, "video"), n - 1)

\* lines 226-229 and 323-326
addReceiveTransceivers(ts, n) == addTransceiver(addVideoTransceivers(ts, n), "audio")

\* client.addTrack(track) before any negotiation: the track goes to the first
\* transceiver of its kind whose sender has no track, and a recvonly
\* transceiver becomes sendrecv; without such a transceiver a new sendrecv
\* transceiver is added
addTrack(ts, track) ==
  LET free == {k \in 1..Len(ts) : ts[k].kind = track.kind /\ ~IsSome(ts[k].track)}
  IN IF free = {}
     THEN Append(ts, [kind |-> track.kind, direction |-> "sendrecv",
                      track |-> Some(track.id)])
     ELSE LET k == CHOOSE x \in free : \A y \in free : x <= y
          IN [ts EXCEPT ![k] =
                [kind |-> track.kind,
                 direction |-> IF @.direction = "recvonly" THEN "sendrecv"
                               ELSE @.direction,
                 track |-> Some(track.id)]]

\* the loops of lines 285-288 and 329-332 over media.getTracks()
RECURSIVE addTracks(_, _)
addTracks(ts, tracks) ==
  IF tracks = <<>> THEN ts ELSE addTracks(addTrack(ts, Head(tracks)), Tail(tracks))

\* start() returns v, or throws e
Resolved(v) == [st |-> "resolved", value |-> v, error |-> ""]
Rejected(e) == [st |-> "rejected", value |-> "", error |-> e]

\* WhipClient.start from line 278, with m the value of this.media: line 290
\* calls sendOffer, which runs up to its first await (line 50), and awaits it
WhipStartFrom(m) ==
  IF ~IsSome(m)
  THEN /\ start' = Resolved("false")
       /\ UNCHANGED <<transceivers, pc>>
  ELSE /\ transceivers' = addTracks(transceivers, Get(m))
       /\ pc' = [pc EXCEPT ![1] = "createOffer"]
       /\ start' = [st |-> "sendOffer", value |-> "", error |-> ""]

\* DuplexClient.start from line 321, with m the value of this.media: line 335
\* calls sendOffer, which runs up to its first await, and start returns
DuplexStartFrom(m) ==
  /\ transceivers' =
       LET ts == addReceiveTransceivers(transceivers, simulcastVideoCount)
       IN IF IsSome(m) THEN addTracks(ts, Get(m)) ELSE ts
  /\ pc' = [pc EXCEPT ![1] = "createOffer"]
  /\ start' = Resolved("undefined")

\* WhepClient.start (lines 223-232): line 231 calls sendOffer, which runs up
\* to its first await, and start returns
WhepStart ==
  /\ role = "whep"
  /\ start.st = "idle"
  /\ transceivers' = addReceiveTransceivers(transceivers, simulcastVideoCount)
  /\ pc' = [pc EXCEPT ![1] = "createOffer"]
  /\ start' = Resolved("undefined")
  /\ UNCHANGED <<config, iceServers, localDescription, remoteDescription, sessionUrl,
                 error, headers, posts, dispatched, candVars, role, env,
                 simulcastVideoCount, container, media, access, trackVars, parseVars>>

\* the rest of start() once this.media is known to be m
StartFrom(m) ==
  IF role = "whip" THEN WhipStartFrom(m) ELSE DuplexStartFrom(m)

\* WhipClient.start (lines 275-292) and DuplexClient.start (lines 316-336) up
\* to the first await. Without this.media they call requestAccess (lines
\* 366-381), which returns null at once when there is no
\* navigator.mediaDevices and awaits getUserMedia otherwise
Start ==
  /\ role \in {"whip", "duplex"}
  /\ start.st = "idle"
  /\ access = "idle"
  /\ IF IsSome(media) \/ ~env.mediaDevices
     THEN /\ StartFrom(media)
          /\ UNCHANGED access
     ELSE /\ access' = "pending"
          /\ start' = [st |-> "requestAccess", value |-> "", error |-> ""]
          /\ UNCHANGED <<transceivers, pc>>
  /\ UNCHANGED <<config, iceServers, localDescription, remoteDescription, sessionUrl,
                 error, headers, posts, dispatched, candVars, role, env,
                 simulcastVideoCount, container, media, trackVars, parseVars>>

\* the caller calls requestAccess() (lines 271-273, 312-314) before start()
RequestAccess ==
  /\ role \in {"whip", "duplex"}
  /\ start.st = "idle"
  /\ access = "idle"
  /\ ~IsSome(media)
  /\ env.mediaDevices
  /\ access' = "pending"
  /\ UNCHANGED <<connVars, offerVars, candVars, role, env, simulcastVideoCount,
                 container, media, start, transceivers, trackVars, parseVars>>

\* getUserMedia resolves (line 373) or rejects (line 377) with m the value
\* requestAccess() || undefined: a start() that awaits it goes on
GetUserMediaSettled(m) ==
  /\ access' = "idle"
  /\ media' = m
  /\ IF start.st = "requestAccess"
     THEN StartFrom(m)
     ELSE UNCHANGED <<start, transceivers, pc>>
  /\ UNCHANGED <<config, iceServers, localDescription, remoteDescription, sessionUrl,
                 error, headers, posts, dispatched, candVars, role, env,
                 simulcastVideoCount, container, trackVars, parseVars>>

GetUserMediaResolved ==
  /\ access = "pending"
  /\ GetUserMediaSettled(Some(UserMedia))

GetUserMediaRejected ==
  /\ access = "pending"
  /\ GetUserMediaSettled(None)

\* the sendOffer that WhipClient.start awaits (line 290) has returned or
\* thrown: start returns true (line 291) or throws what sendOffer threw
StartSettled ==
  /\ start.st = "sendOffer"
  /\ pc[1] \in {"done", "returned", "threw"}
  /\ start' = IF pc[1] = "threw" THEN Rejected(error[1]) ELSE Resolved("true")
  /\ UNCHANGED <<connVars, offerVars, candVars, role, env, simulcastVideoCount,
                 container, media, access, transceivers, trackVars, parseVars>>

\* ------------------------------------------------------- handleGotTrack
\* the track events: the n-th event has the track n of kind audio or video
\* and ev.streams of length 0 or 1
TrackEvents(n) == [id : {n}, kind : {"audio", "video"}, streams : {0, 1}]

\* line 237: the video tracks recorded after the event
RecordVideo(videos, ev) ==
  IF ev.kind = "video" /\ ev.streams > 0 THEN Append(videos, ev.id) ELSE videos

\* line 240: the audio track recorded after the event
RecordAudio(audio, ev) == IF ev.kind = "audio" THEN Some(ev.id) ELSE audio

\* createPlayerElement (lines 383-391): the video element of a stream
createPlayerElement(stream) ==
  [srcObject |-> stream, controls |-> TRUE, muted |-> TRUE, autoplay |-> TRUE]

\* the loop of lines 245-256 (350-361) from index i (1-based here), with the
\* elements els and the streams strs constructed so far
RECURSIVE PairFrom(_, _, _, _, _)
PairFrom(i, videos, audio, els, strs) ==
  IF i > Len(videos) THEN [videoElements |-> els, streams |-> strs]
  ELSE IF i <= Len(els) THEN PairFrom(i + 1, videos, audio, els, strs)
  ELSE LET stream == IF i = 1 THEN <<audio, videos[i]>> ELSE <<videos[i]>>
       IN PairFrom(i + 1, videos, audio,
                   IF container THEN Append(els, createPlayerElement(stream)) ELSE els,
                   Append(strs, stream))

\* WhepClient.handleGotTrack (lines 234-258) and DuplexClient.handleGotTrack
\* (lines 339-363), which the peer connection calls with a track event once a
\* remote description is applied
handleGotTrack(ev) ==
  /\ role \in {"whep", "duplex"}
  /\ IsSome(remoteDescription)
  /\ nTracks < MaxTracks
  /\ nTracks' = nTracks + 1
  /\ LET videos == RecordVideo(outputVideoTracks, ev)
         audio == RecordAudio(outputAudioTrack, ev)
     IN /\ outputVideoTracks' = videos
        /\ outputAudioTrack' = audio
        /\ IF IsSome(audio) /\ Len(videos) > Len(videoElements)
           THEN LET paired == PairFrom(1, videos, Get(audio), videoElements, streams)
                IN /\ videoElements' = paired.videoElements
                   /\ streams' = paired.streams
           ELSE UNCHANGED <<videoElements, streams>>
  /\ UNCHANGED <<connVars, offerVars, candVars, roleVars, parseVars>>

GotTrack == \E ev \in TrackEvents(nTracks + 1) : handleGotTrack(ev)

\* ------------------------------------- receiveIceServers on one header
\* entries of a Link header that are not as section 6 writes them:
\*   kind "spaced":       <url> ; rel="ice-server" ;  with blanks around
\*   kind "emptybracket": <>; rel="ice-server"
\*   kind "urlsecond":    rel="ice-server"; <url>
\*   kind "unquoted":     <url>; rel=ice-server
\*   kind "empty":        nothing between two commas
RenderOddEntry(e) ==
  CASE e.kind = "spaced" ->
         <<" ", "<">> \o e.url \o <<">", " ", ";", " ", " ">>
           \o <<"rel", "=", "\"", "ice-server", "\"", " ", ";", " ">>
    [] e.kind = "emptybracket" -> <<"<", ">">> \o Param("rel", <<"ice-server">>)
    [] e.kind = "urlsecond" ->
         <<"rel", "=", "\"", "ice-server", "\"", ";", " ", "<">> \o e.url \o <<">">>
    [] e.kind = "unquoted" ->
         <<"<">> \o e.url \o <<">", ";", " ", "rel", "=", "ice-server">>
    [] e.kind = "empty" -> <<>>
    [] OTHER -> RenderEntry(e)

RECURSIVE RenderOddLink(_)
RenderOddLink(es) ==
  IF Len(es) = 0 THEN <<>>
  ELSE IF Len(es) = 1 THEN RenderOddEntry(es[1])
  ELSE RenderOddEntry(es[1]) \o <<",", " ">> \o RenderOddLink(Tail(es))

OddEntries ==
  {[kind |-> k, url |-> <<"stun:b">>, username |-> None, credential |-> None,
    credentialType |-> None] :
     k \in {"spaced", "emptybracket", "urlsecond", "unquoted", "empty"}}

\* the entries of the parse on its own: the odd ones, the ice-server entries
\* without attributes or with all three, and one entry of each other kind
ParseEntries ==
  OddEntries
    \cup {e \in IceEntries : e.username = None \/ e.credentialType # None}
    \cup {e \in OtherEntries : e.url = <<"stun:b">>}

ParseEntryLists == UNION {[1..n -> ParseEntries] : n \in 1..MaxParseEntries}

\* a new client and the Link header of the response to come
InitParse ==
  /\ InitClient
  /\ role = "base"
  /\ env = NoEnv
  /\ simulcastVideoCount = 1
  /\ container = FALSE
  /\ media = None
  /\ access = "idle"
  /\ start = NotStarted
  /\ transceivers = <<>>
  /\ outputVideoTracks = <<>>
  /\ outputAudioTrack = None
  /\ videoElements = <<>>
  /\ streams = <<>>
  /\ nTracks = 0
  /\ linkHeader \in ParseEntryLists
  /\ servers = None

\* receiveIceServers (lines 137-182) on the header: the servers of lines
\* 142-169 and the ICE servers after lines 170-180
ReceiveIceServers ==
  /\ ~IsSome(servers)
  /\ servers' = Some(ParseLinkHeader(RenderOddLink(linkHeader)))
  /\ iceServers' = receiveIceServers(Some(RenderOddLink(linkHeader)), iceServers)
  /\ UNCHANGED <<config, localDescription, remoteDescription, offerVars, candVars,
                 roleVars, trackVars, linkHeader>>

\* --------------------------------------------------------- specifications
Next ==
  \/ IceCandidate
  \/ \E i \in Offers : SendOffer(i)
  \/ \E i \in Offers : CreateOfferResolved(i)
  \/ \E i \in Offers : CreateOfferRejected(i)
  \/ \E i \in Offers : SetLocalDescriptionResolved(i)
  \/ \E i \in Offers : SetLocalDescriptionRejected(i)
  \/ \E i \in Offers : \E r \in Responses(FewLinks) : FetchResolved(i, r)
  \/ \E i \in Offers : FetchRejected(i)
  \/ \E i \in Offers : TextResolved(i)
  \/ \E i \in Offers : TextRejected(i)
  \/ \E i \in Offers : SetRemoteDescriptionResolved(i)
  \/ \E i \in Offers : SetRemoteDescriptionRejected(i)
  \/ \E i \in Offers : FlushResolved(i)
  \/ \E i \in Offers : FlushRejected(i)

\* the client with trickled candidates and up to MaxOffers calls of sendOffer
Spec == Init /\ [][Next]_vars

\* one negotiation of a new client, without candidates, over every Link header
\* of up to MaxEntries entries
NextLink ==
  \/ SendOffer(1)
  \/ CreateOfferResolved(1)
  \/ SetLocalDescriptionResolved(1)
  \/ \E r \in Responses(AllLinks) : FetchResolved(1, r)
  \/ TextResolved(1)
  \/ SetRemoteDescriptionResolved(1)

SpecLink == Init /\ [][NextLink]_vars

\* the responses to the POST of a client that start() started: ok with a
\* Location, ok without one, not ok
RoleResponses ==
  {[ok |-> TRUE, location |-> Some([origin |-> "", path |-> "/session/1"]), link |-> None],
   [ok |-> TRUE, location |-> None, link |-> None],
   [ok |-> FALSE, location |-> None, link |-> None]}

\* a client of one of the subclasses: one call of start(), the negotiation it
\* starts, and the remote tracks
NextRole ==
  \/ WhepStart
  \/ Start
  \/ RequestAccess
  \/ GetUserMediaResolved
  \/ GetUserMediaRejected
  \/ StartSettled
  \/ CreateOfferResolved(1)
  \/ SetLocalDescriptionResolved(1)
  \/ \E r \in RoleResponses : FetchResolved(1, r)
  \/ FetchRejected(1)
  \/ TextResolved(1)
  \/ SetRemoteDescriptionResolved(1)
  \/ GotTrack

SpecRole == InitRole /\ [][NextRole]_vars

\* receiveIceServers on every Link header of up to MaxParseEntries entries, the
\* malformed ones included
NextParse == ReceiveIceServers

SpecParse == InitParse /\ [][NextParse]_vars

\* ---------------------------------------------------------------- claims
\* the candidates of a sequence of PATCH requests
RECURSIVE CandidatesOf(_)
CandidatesOf(ps) ==
  IF ps = <<>> THEN <<>> ELSE <<Head(ps).candidate>> \o CandidatesOf(Tail(ps))

IsCachedPatch(p) == p.cached

\* the candidates relayed by sendCachedCandidates, in the order of relay
RelayedCached == CandidatesOf(SelectSeq(patches, IsCachedPatch))

\* every candidate is cached in the first array: once there is a session URL
\* nothing is cached, and before there is one no other array exists
Queued == heap[1]

\* C1: the candidates discovered before sessionUrl is set are all relayed by a
\* PATCH once the negotiation has completed, in the order of their arrival and
\* each once. Stated of the states in which a sendCachedCandidates call that a
\* successful sendOffer made has come to its end (returned or rejected).
C1_QueuedAllRelayedOnce ==
  \A i \in Offers :
    pc[i] = "done" /\ flush[i].st \in {"done", "rejected"} => RelayedCached = Queued

\* C2: the PATCH requests are issued in the order in which the candidates were
\* discovered, whatever the interleaving of the notifications with the
\* negotiation.
C2_PatchesInDiscoveryOrder ==
  \A j, k \in 1..Len(patches) :
    j < k => patches[j].candidate.id <= patches[k].candidate.id

\* C3: no PATCH is issued while sessionUrl is absent, the candidates discovered
\* while it is absent are all in the cache and nowhere else, and sendCandidate
\* never throws 'Session url not set when expected'.
C3_NoRelayWithoutSession ==
  /\ ~thrown
  /\ ~IsSome(sessionUrl) =>
       /\ patches = <<>>
       /\ cachedCandidates = 1
       /\ Len(heap[cachedCandidates]) = nEvents - gatheringDone

C3_Witness ==
  /\ ~IsSome(sessionUrl)
  /\ Len(heap[cachedCandidates]) = 2
  /\ \E i \in Offers : pc[i] = "fetch"

\* C4: once sessionUrl is set no array of candidates grows and the cache stays
\* as long as it is or gets shorter, and every notification with a candidate
\* issues the PATCH of that candidate at once.
C4_NoCachingWithSession ==
  [][IsSome(sessionUrl) =>
       /\ \A a \in DOMAIN heap : heap'[a] = heap[a]
       /\ Len(heap'[cachedCandidates']) <= Len(heap[cachedCandidates])
       /\ (nEvents' # nEvents /\ gatheringDone' = gatheringDone) =>
            /\ Len(patches') = Len(patches) + 1
            /\ patches'[Len(patches')].cached = FALSE
            /\ patches'[Len(patches')].candidate.id = nEvents']_vars

C4_Witness ==
  /\ IsSome(sessionUrl)
  /\ heap[1] # <<>>
  /\ \E k \in 1..Len(patches) : ~patches[k].cached

\* C5: a notification of the end of gathering (no candidate, or an empty
\* candidate line) changes neither the cache nor sessionUrl nor the PATCH
\* requests, and no PATCH request and no cached candidate ever has an empty
\* candidate line.
NoEmptyCandidate ==
  /\ \A k \in 1..Len(patches) : patches[k].candidate.candidate # ""
  /\ \A a \in DOMAIN heap : \A k \in 1..Len(heap[a]) : heap[a][k].candidate # ""

C5_EndOfGatheringIgnored ==
  [][/\ (nEvents' # nEvents /\ Len(patches') = Len(patches) /\ heap' = heap) <=>
          gatheringDone' # gatheringDone
     /\ gatheringDone' # gatheringDone =>
          UNCHANGED <<heap, cachedCandidates, sessionUrl, patches, flush>>
     /\ NoEmptyCandidate']_vars

C5_Witness ==
  /\ gatheringDone = 1
  /\ IsSome(sessionUrl)
  /\ Len(patches) = 1

\* C6 as claimed: once sessionUrl is present its value never changes, however
\* often sendOffer is called.
C6_NeverRewritten == [][IsSome(sessionUrl) => sessionUrl' = sessionUrl]_vars

\* C6 as amended: sessionUrl is written only by the step of sendOffer that takes
\* a response to line 74, which each call takes at most once (it issues one
\* POST), and is never cleared; while only one call of sendOffer has been made,
\* it is written only when absent.
C6_WrittenOncePerOffer ==
  [][/\ sessionUrl' # sessionUrl =>
          /\ IsSome(sessionUrl')
          /\ \E i \in Offers :
               /\ pc[i] = "fetch" /\ pc'[i] = "text"
               /\ (\A j \in Offers \ {i} : pc[j] = "idle") => ~IsSome(sessionUrl)
     /\ \A i \in Offers :
          /\ posts'[i] <= 1
          /\ pc'[i] = "fetch" => pc[i] \in {"setLocalDescription", "fetch"}]_vars

C6_Witness ==
  /\ pc[1] = "done"
  /\ pc[2] = "done"
  /\ sessionUrl = Some([origin |-> "https://edge", path |-> "/session/2"])
  /\ \E k \in 1..Len(patches) : patches[k].url.path = "/session/1"

\* no call of sendOffer has got past line 72
NeverNegotiated ==
  \A j \in Offers :
    \/ pc[j] \in {"idle", "createOffer", "setLocalDescription", "fetch", "returned"}
    \/ pc[j] = "threw" /\ error[j] \notin {"text", "setRemoteDescription"}

\* while no call has got past line 72 there is no session URL, no answer has
\* been applied, and no candidate has been flushed or relayed
NothingNegotiated ==
  NeverNegotiated =>
    /\ ~IsSome(sessionUrl)
    /\ ~IsSome(remoteDescription)
    /\ patches = <<>>
    /\ \A j \in Offers : flush[j] = NoFlush

\* C7: on a response that is not ok sendOffer dispatches one 'responseerror'
\* event with the response and returns without throwing; that step leaves
\* sessionUrl, the remote description, the ICE servers, the cache and the
\* requests as they are, and the call does nothing afterwards: it has issued
\* one POST and starts no flush.
C7_ResponseErrorEvent ==
  [][/\ \A i \in Offers :
          /\ (pc[i] = "fetch" /\ pc'[i] # "fetch") =>
             \A r \in Responses(FewLinks) :
               (~r.ok /\ FetchResolved(i, r)) =>
                 /\ pc'[i] = "returned"
                 /\ error'[i] = ""
                 /\ dispatched' = Append(dispatched, [type |-> "responseerror", detail |-> r])
                 /\ UNCHANGED <<sessionUrl, remoteDescription, iceServers, patches, posts,
                                flush, heap, cachedCandidates>>
          /\ pc[i] = "returned" =>
               /\ pc'[i] = "returned"
               /\ posts'[i] = 1
               /\ flush'[i] = NoFlush
     /\ Len(dispatched') = Cardinality({i \in Offers : pc'[i] = "returned"})
     /\ NothingNegotiated']_vars

C7_Witness ==
  /\ pc[1] = "returned"
  /\ pc[2] = "idle"
  /\ config = <<>>
  /\ Len(dispatched) = 1
  /\ ~dispatched[1].detail.ok
  /\ IsSome(dispatched[1].detail.link)
  /\ iceServers = <<>>
  /\ ~IsSome(sessionUrl)
  /\ Len(heap[cachedCandidates]) = 2
  /\ patches = <<>>

\* C8: on an ok response without a Location sendOffer throws 'Session not
\* provided in Location header'; that step leaves sessionUrl, the remote
\* description, the cache and the PATCH requests as they are, the call never
\* flushes, and while no other call gets past line 72 no candidate is relayed.
C8_MissingLocationThrows ==
  [][/\ \A i \in Offers :
          /\ (pc[i] = "fetch" /\ pc'[i] # "fetch") =>
             \A r \in Responses(FewLinks) :
               (r.ok /\ ~IsSome(r.location) /\ FetchResolved(i, r)) =>
                 /\ pc'[i] = "threw"
                 /\ error'[i] = "Session not provided in Location header"
                 /\ UNCHANGED <<sessionUrl, remoteDescription, patches, flush, heap,
                                cachedCandidates, dispatched>>
          /\ pc[i] = "threw" => pc'[i] = "threw" /\ flush'[i] = NoFlush
     /\ (NeverNegotiated => ~IsSome(sessionUrl) /\ ~IsSome(remoteDescription)
                              /\ patches = <<>>)']_vars

C8_Witness ==
  /\ pc[1] = "threw"
  /\ error[1] = "Session not provided in Location header"
  /\ pc[2] = "idle"
  /\ nEvents = 2
  /\ Len(heap[cachedCandidates]) = 2
  /\ patches = <<>>
  /\ ~IsSome(sessionUrl)

\* the RTCIceServer a well-formed ice-server entry stands for
ServerOf(e) ==
  [urls |-> <<e.url>>, username |-> e.username, credential |-> e.credential,
   credentialType |-> e.credentialType]

RECURSIVE ExpectedServers(_)
ExpectedServers(es) ==
  IF es = <<>> THEN <<>>
  ELSE (IF Head(es).kind = "ice" THEN <<ServerOf(Head(es))>> ELSE <<>>)
         \o ExpectedServers(Tail(es))

\* C9: when the caller passed no ICE servers and an ok response has a Link
\* header with at least one well-formed ice-server entry, the ICE servers of
\* the peer connection are from then on the servers of those entries: one per
\* entry, in the order of the header, with the url, username, credential and
\* credential-type of the entry.
C9_HeaderServersInstalled ==
  (config = <<>> /\ IsSome(headers) /\ ExpectedServers(Get(headers)) # <<>>) =>
    iceServers = ExpectedServers(Get(headers))

C9_Witness ==
  /\ config = <<>>
  /\ pc[1] = "done"
  /\ IsSome(headers)
  /\ Len(Get(headers)) = 2
  /\ Len(iceServers) = 2
  /\ iceServers[1].urls # iceServers[2].urls
  /\ IsSome(iceServers[1].credentialType)
  /\ ~IsSome(iceServers[2].username)

\* C10: when the caller passed ICE servers, the ICE servers of the peer
\* connection stay the ones the caller passed, whatever Link header the
\* response has.
C10_ExplicitServersKept == config # <<>> => iceServers = config

C10_Witness ==
  /\ config = callerServers
  /\ pc[1] = "done"
  /\ IsSome(headers)
  /\ Len(ExpectedServers(Get(headers))) = 2
  /\ iceServers = callerServers

\* the pairings materialized so far are the MediaStream objects constructed
\* (lines 249 and 251); the ones handed to the rendering are in videoElements
Pairings == streams

\* C11: while no audio track is recorded no pairing is materialized; once one
\* is recorded there are as many pairings as recorded video tracks, pairing i
\* is built from video track i, the first one has an audio track and the
\* first video track, and every later one has its video track only.
C11_PairingsFollowVideos ==
  /\ ~IsSome(outputAudioTrack) => Pairings = <<>>
  /\ IsSome(outputAudioTrack) =>
       /\ Len(Pairings) = Len(outputVideoTracks)
       /\ \A i \in 1..Len(Pairings) :
            IF i = 1
            THEN \E a \in 1..nTracks : Pairings[1] = <<a, outputVideoTracks[1]>>
            ELSE Pairings[i] = <<outputVideoTracks[i]>>

\* the pairings and the video elements built from the video track v
PairingsOf(v) == {k \in 1..Len(Pairings) : Pairings[k][Len(Pairings[k])] = v}
ElementsOf(v) ==
  {k \in 1..Len(videoElements) :
     videoElements[k].srcObject[Len(videoElements[k].srcObject)] = v}

\* C12: with or without a container, every recorded video track has at most
\* one pairing (one stream constructed for it) and at most one video element,
\* and a notification only adds pairings and elements at the end.
C12_MaterializedOnce ==
  [][/\ \A i \in 1..Len(outputVideoTracks') :
          /\ Cardinality(PairingsOf(outputVideoTracks[i])') <= 1
          /\ Cardinality(ElementsOf(outputVideoTracks[i])') <= 1
     /\ Len(Pairings') >= Len(Pairings)
     /\ SubSeq(Pairings', 1, Len(Pairings)) = Pairings
     /\ Len(videoElements') >= Len(videoElements)
     /\ SubSeq(videoElements', 1, Len(videoElements)) = videoElements]_vars

\* C13: a track event with a video track and no stream leaves the recorded
\* video tracks, the recorded audio track, the pairings and the video elements
\* as they are.
C13_VideoWithoutStreamIgnored ==
  [][\A ev \in TrackEvents(nTracks + 1) :
       (handleGotTrack(ev) /\ ev.kind = "video" /\ ev.streams = 0) =>
         UNCHANGED <<outputVideoTracks, outputAudioTrack, Pairings, videoElements>>]_vars

\* C14: when start() of a WhipClient or of a DuplexClient has completed and
\* there is no local media (getUserMedia rejected, or there is no
\* navigator.mediaDevices), it has returned false and has not thrown.
C14_MediaFailureReturnsFalse ==
  (role \in {"whip", "duplex"} /\ start.st \in {"resolved", "rejected"} /\ ~IsSome(media))
    => start = Resolved("false")

\* the receive-only transceivers of a kind
RecvOnly(kind) ==
  {k \in 1..Len(transceivers) :
     transceivers[k].kind = kind /\ transceivers[k].direction = "recvonly"}

\* the configured simulcast count, 1 when there is none
ConfiguredCount ==
  IF IsSome(env.simulcastVideoCount) THEN Get(env.simulcastVideoCount) ELSE 1

\* C15: in a WhepClient and a DuplexClient, from the call of createOffer on the
\* peer connection has as many receive-only video transceivers as configured
\* (1 when not configured) and one receive-only audio transceiver, no
\* transceiver is added or changed after that call, and the one call of
\* sendOffer issues one POST.
C15_ReceiveTransceiversBeforeOffer ==
  [][(role # "whip") =>
       /\ pc[1] # "idle" => transceivers' = transceivers
       /\ pc'[1] # "idle" =>
            /\ Cardinality(RecvOnly("video")') = ConfiguredCount
            /\ Cardinality(RecvOnly("audio")') = 1
       /\ posts'[1] = (IF pc'[1] \in {"idle", "createOffer", "setLocalDescription"}
                       THEN 0 ELSE 1)
       /\ \A i \in Offers : i # 1 => (pc'[i] = "idle" /\ posts'[i] = 0)]_vars

\* no call of sendOffer and no flush is under way
Quiescent ==
  \A i \in Offers :
    /\ pc[i] \in {"idle", "done", "returned", "threw"}
    /\ flush[i].st # "await"

\* C16: when no call of sendOffer and no flush is under way and sessionUrl is
\* present, the cache is empty: the candidates that were cached when
\* sessionUrl was set have been flushed.
C16_FlushedWhenQuiescent ==
  (Quiescent /\ IsSome(sessionUrl)) => heap[cachedCandidates] = <<>>

\* C17: the step that ends a negotiation in failure (a response that is not
\* ok, or an ok response without a Location) leaves the ICE servers of the
\* peer connection as they are.
C17_FailureKeepsIceServers ==
  [][\A i \in Offers :
       (pc[i] = "fetch" /\ pc'[i] \in {"returned", "threw"}) =>
         iceServers' = iceServers]_vars

\* an entry with a segment rel="ice-server" and a bracketed URL in its first
\* segment
WellFormed(e) == e.kind \in {"ice", "spaced"}

\* the descriptors of the well-formed entries of a header, in its order
RECURSIVE Descriptors(_)
Descriptors(es) ==
  IF es = <<>> THEN <<>>
  ELSE (IF WellFormed(Head(es)) THEN <<ServerOf(Head(es))>> ELSE <<>>)
         \o Descriptors(Tail(es))

\* C18: the parse of a Link header gives one descriptor for each entry that
\* has a segment rel="ice-server" and a bracketed URL in its first segment,
\* in the order of the header, and nothing for the other entries, wherever
\* they stand in the header.
C18_MalformedEntriesDropped ==
  IsSome(servers) => Get(servers) = Descriptors(linkHeader)

C18_Witness ==
  /\ IsSome(servers)
  /\ Len(linkHeader) = 3
  /\ linkHeader[1].kind = "ice"
  /\ linkHeader[2].kind = "emptybracket"
  /\ linkHeader[3].kind = "spaced"
  /\ Len(Get(servers)) = 2
  /\ Get(servers)[1].urls # Get(servers)[2].urls
  /\ config = <<>>
  /\ iceServers = Get(servers)

\* C19: start() has not returned while the sendOffer it called is under way,
\* and when that sendOffer throws start() does not return: it throws the same.
C19_StartAwaitsNegotiation ==
  /\ (start.st = "resolved" /\ start.value # "false") => pc[1] \in {"done", "returned"}
  /\ pc[1] = "threw" => start.st \in {"sendOffer", "rejected"}
  /\ start.st = "rejected" => pc[1] = "threw" /\ start.error = error[1]

\* C20: when the PATCH of a cached candidate has rejected and nothing is under
\* way any more, every candidate of the array that was flushed has been sent
\* by the flush and the cache is empty.
C20_FlushGoesOnAfterFailure ==
  \A i \in Offers :
    (Quiescent /\ flush[i].st = "rejected") =>
      /\ \A k \in 1..Len(heap[flush[i].arr]) :
           \E j \in 1..Len(patches) :
             patches[j].cached /\ patches[j].candidate = heap[flush[i].arr][k]
      /\ heap[cachedCandidates] = <<>>

====
